---- MODULE Spec2Model ----
(***************************************************************************)
(* Dew heater bands controller (dew_heater.py): the DewHeaterHandler      *)
(* control cycle, the /api request handler and the periodic driver, as    *)
(* coroutines of one asyncio event loop.  One step of the model is the    *)
(* code a coroutine runs between two suspension points.                   *)
(***************************************************************************)
EXTENDS Integers, Sequences, FiniteSets, TLC

\* ------------------------------------------------------------------ bounds
MaxAdvances == 2          \* number of clock advances explored

\* ------------------------------------------------------- program constants
Scale == 10000            \* temperatures are held in 1/10000 degC
temp_threshold == 4 * Scale
time_threshold == 1800
SLEEP == 180
DAY == 86400              \* timedelta.seconds is the remainder modulo one day
Tn == 2407263             \* 240.7263 degC

Channels == {"main", "guide"}
RelayOrder == <<"main", "guide">>     \* iteration order of the relays dict

Driver == "driver"
Handlers == {"h1", "h2"}
Tasks == {Driver} \cup Handlers

TimeSteps == {SLEEP, time_threshold, DAY - time_threshold}

\* ------------------------------------------------------------------- state
VARIABLES
  status,     \* self._status: [auto, telescope]
  relays,     \* is_active of each DigitalOutputDevice
  time,       \* self._time, seconds
  now,        \* datetime.utcnow(), seconds
  nadv,       \* clock advances taken so far
  locked,     \* _updater_lock._locked
  waiters,    \* _updater_lock._waiters, FIFO
  pc,         \* where each coroutine is suspended
  req,        \* params["telescope"] of a suspended /api request
  dirty,      \* a suspended /api request has already changed the controller
  sleepLeft,  \* seconds left of the driver's asyncio.sleep(180)
  out,        \* what the last step emitted: log line, relay writes, response
  last_status,\* /status-sse: last_status, <<>> for {}
  sending,    \* /status-sse: the payload of the resp.send in flight, or <<>>
  pushed,     \* /status-sse: the last payload the observer received, or <<>>
  faulty      \* the channels whose DigitalOutputDevice raises in on()/off()

vars == <<status, relays, time, now, nadv, locked, waiters, pc, req, dirty,
          sleepLeft, out, last_status, sending, pushed, faulty>>
sse == <<last_status, sending, pushed>>

\* --------------------------------------------------------- relay actuator
\* The controller fields the handler methods read and write, as one record;
\* writes counts the calls of DigitalOutputDevice.on()/off().
\* exc: an on()/off() has raised, the statements after it are skipped.
Ctl == [status |-> status, relays |-> relays, time |-> time, writes |-> 0,
        exc |-> FALSE]

update_relay_status(s) ==
  [s EXCEPT !.status.telescope = [c \in Channels |-> s.relays[c]]]

\* relay_on without the is_active test
relay_on_unguarded(s, c) ==
  update_relay_status([s EXCEPT !.relays[c] = TRUE, !.writes = @ + 1])

relay_on(s, c) ==
  IF s.exc THEN s
  ELSE IF ~s.relays[c]
  THEN IF c \in faulty THEN [s EXCEPT !.exc = TRUE]
       ELSE update_relay_status([s EXCEPT !.relays[c] = TRUE,
                                          !.writes = @ + 1])
  ELSE s

\* relay_off without the call of _update_relay_status
relay_off_no_update(s, c) ==
  IF s.relays[c]
  THEN [s EXCEPT !.relays[c] = FALSE, !.writes = @ + 1]
  ELSE s

relay_off(s, c) ==
  IF s.exc THEN s
  ELSE IF s.relays[c]
  THEN IF c \in faulty THEN [s EXCEPT !.exc = TRUE]
       ELSE update_relay_status([s EXCEPT !.relays[c] = FALSE,
                                          !.writes = @ + 1])
  ELSE s

RECURSIVE AllOnFrom(_, _)
AllOnFrom(s, i) ==
  IF i > Len(RelayOrder) THEN s ELSE AllOnFrom(relay_on(s, RelayOrder[i]), i + 1)

RECURSIVE AllOffFrom(_, _)
AllOffFrom(s, i) ==
  IF i > Len(RelayOrder) THEN s ELSE AllOffFrom(relay_off(s, RelayOrder[i]), i + 1)

\* for telescope in self.relays: self.relay_on(telescope)
ForceEnabled(s) == AllOnFrom(s, 1)
\* for telescope in self.relays: self.relay_off(telescope)
ForceDisabled(s) == AllOffFrom(s, 1)

\* ------------------------------------------------------- dew point (floats)
\* A float is [k |-> "num", v |-> value in 1/Scale] or [k |-> "nan"];
\* a raised exception is [k |-> "raise"].
Num(v) == [k |-> "num", v |-> v]
NaN == [k |-> "nan"]
Raise == [k |-> "raise"]

\* Station readings: temperature in 1/Scale degC, humidity in 1/10 percent.
Reading(t, rh) == [temperature |-> t, humidity |-> rh]
Samples == { Reading(20 * Scale, 500),     \* 20.0 degC, 50 %
             Reading(10 * Scale, 900),     \* 10.0 degC, 90 %
             Reading(12 * Scale, 765),     \* 12.0 degC, 76.5 %
             Reading(20 * Scale, 0),       \* humidity 0
             Reading(20 * Scale, -50),     \* humidity -5 %
             Reading(-Tn, 500) }           \* temperature = -Tn

\* round(Tn / ((m / log10(Pw / a)) - 1), 1) for the readings with Pw > 0,
\* evaluated with the source's constants.
DewPointRef(t, rh) ==
  CASE t = 20 * Scale /\ rh = 500 -> 93000      \*  9.3
    [] t = 10 * Scale /\ rh = 900 -> 84000      \*  8.4
    [] t = 12 * Scale /\ rh = 765 -> 80000      \*  8.0

dew_point(t, rh) ==
  IF t + Tn = 0 THEN Raise                \* m * t / (t + Tn): ZeroDivisionError
  ELSE IF rh = 0 THEN Num(-2407000)       \* log10(0) = -inf, m/-inf = -0.0,
                                          \* Tn / -1.0 rounded: -240.7
  ELSE IF rh < 0 THEN NaN                 \* log10(negative) = nan
  ELSE Num(DewPointRef(t, rh))

FSub(x, y) == IF y.k = "num" THEN Num(x - y.v) ELSE NaN
FLt(x, y) == x.k = "num" /\ x.v < y
FGt(x, y) == x.k = "num" /\ x.v > y

\* What `await self._get_meteo_data()` delivers: an exception (connection
\* error, 5 s timeout, malformed or missing fields) or a reading.
Failure(e) == [error |-> e]
FetchResults == {Failure("neterror"), Failure("malformed")} \cup Samples
NoFetch == Failure("none")

\* --------------------------------------------------------- the cycle lock
\* asyncio.Lock.acquire returns at once only if the lock is free and nobody
\* is queued.
\* an acquire that does not look at the lock
CanAcquireAlways == TRUE

CanAcquire == ~locked /\ waiters = <<>>

\* ------------------------------------------------------- the control cycle
\* (datetime.utcnow() - self._time).seconds
Seconds(d) == d % DAY

\* The locked body up to the fetch: the day/night gate and the daytime branch.
\* a gate that goes on to the fetch in daytime too
GateNoDaytime(s, sun) ==
  [s |-> s, at |-> "fetch", log |-> "start",
   sun |-> IF sun THEN "up" ELSE "down"]

Gate(s, sun) ==
  IF sun
  THEN [s |-> ForceDisabled(s), at |-> "ret", log |-> "daily", sun |-> "up"]
  ELSE [s |-> s, at |-> "fetch", log |-> "start", sun |-> "down"]

\* update_status from its call to its first suspension (or its return).
update_status(s, sun) ==
  IF ~s.status.auto
  THEN [s |-> s, at |-> "ret", log |-> "none", sun |-> "na"]
  ELSE IF ~CanAcquire
  THEN [s |-> s, at |-> "lockwait", log |-> "none", sun |-> "na"]
  ELSE Gate(s, sun)

\* The locked body from the result of the fetch to the end.
\* a failure handler that logs and leaves the relays alone
DecideNoFailSafe(s, r) ==
  LET dp == IF r \in Samples THEN dew_point(r.temperature, r.humidity)
            ELSE Raise
  IN IF dp.k = "raise"
     THEN [s |-> s, log |-> "error"]
     ELSE LET delta == FSub(r.temperature, dp)
          IN IF FLt(delta, temp_threshold)
             THEN [s |-> ForceEnabled([s EXCEPT !.time = now]),
                   log |-> "enabled"]
             ELSE IF FGt(delta, temp_threshold)
                     /\ Seconds(now - s.time) > time_threshold
             THEN [s |-> ForceDisabled(s), log |-> "disabled"]
             ELSE [s |-> s, log |-> "waiting"]

\* a decision that disables as soon as delta is above the threshold
DecideNoHold(s, r) ==
  LET dp == IF r \in Samples THEN dew_point(r.temperature, r.humidity)
            ELSE Raise
  IN IF dp.k = "raise"
     THEN [s |-> ForceDisabled(s), log |-> "error"]
     ELSE LET delta == FSub(r.temperature, dp)
          IN IF FLt(delta, temp_threshold)
             THEN [s |-> ForceEnabled([s EXCEPT !.time = now]),
                   log |-> "enabled"]
             ELSE IF FGt(delta, temp_threshold)
             THEN [s |-> ForceDisabled(s), log |-> "disabled"]
             ELSE [s |-> s, log |-> "waiting"]

\* a decision whose enable branch keeps the old self._time
DecideNoStamp(s, r) ==
  LET dp == IF r \in Samples THEN dew_point(r.temperature, r.humidity)
            ELSE Raise
  IN IF dp.k = "raise"
     THEN [s |-> ForceDisabled(s), log |-> "error"]
     ELSE LET delta == FSub(r.temperature, dp)
          IN IF FLt(delta, temp_threshold)
             THEN [s |-> ForceEnabled(s), log |-> "enabled"]
             ELSE IF FGt(delta, temp_threshold)
                     /\ Seconds(now - s.time) > time_threshold
             THEN [s |-> ForceDisabled(s), log |-> "disabled"]
             ELSE [s |-> s, log |-> "waiting"]

\* a decision that also disables when delta equals the threshold
DecideTieDisables(s, r) ==
  LET dp == IF r \in Samples THEN dew_point(r.temperature, r.humidity)
            ELSE Raise
  IN IF dp.k = "raise"
     THEN [s |-> ForceDisabled(s), log |-> "error"]
     ELSE LET delta == FSub(r.temperature, dp)
          IN IF FLt(delta, temp_threshold)
             THEN [s |-> ForceEnabled([s EXCEPT !.time = now]),
                   log |-> "enabled"]
             ELSE IF (FGt(delta, temp_threshold) \/ delta = Num(temp_threshold))
                     /\ Seconds(now - s.time) > time_threshold
             THEN [s |-> ForceDisabled(s), log |-> "disabled"]
             ELSE [s |-> s, log |-> "waiting"]

\* a decision whose except clause also covers the enable and disable loops
DecideSwallow(s, r) ==
  LET dp == IF r \in Samples THEN dew_point(r.temperature, r.humidity)
            ELSE Raise
      caught(d) == IF d.s.exc
                   THEN [s |-> ForceDisabled([d.s EXCEPT !.exc = FALSE]),
                         log |-> "error"]
                   ELSE d
  IN IF dp.k = "raise"
     THEN [s |-> ForceDisabled(s), log |-> "error"]
     ELSE LET delta == FSub(r.temperature, dp)
          IN IF FLt(delta, temp_threshold)
             THEN caught([s |-> ForceEnabled([s EXCEPT !.time = now]),
                          log |-> "enabled"])
             ELSE IF FGt(delta, temp_threshold)
                     /\ Seconds(now - s.time) > time_threshold
             THEN caught([s |-> ForceDisabled(s), log |-> "disabled"])
             ELSE [s |-> s, log |-> "waiting"]

Decide(s, r) ==
  LET dp == IF r \in Samples THEN dew_point(r.temperature, r.humidity)
            ELSE Raise
  IN IF dp.k = "raise"
     THEN [s |-> ForceDisabled(s), log |-> "error"]
     ELSE LET delta == FSub(r.temperature, dp)
          IN IF FLt(delta, temp_threshold)
             THEN [s |-> ForceEnabled([s EXCEPT !.time = now]),
                   log |-> "enabled"]
             ELSE IF FGt(delta, temp_threshold)
                     /\ Seconds(now - s.time) > time_threshold
             THEN [s |-> ForceDisabled(s), log |-> "disabled"]
             ELSE [s |-> s, log |-> "waiting"]

\* ------------------------------------------------------------ /api, "set"
\* params["telescope"]: whether the key is present, and what it says for each
\* channel ("skip": the channel is not named).
NoTele == [present |-> FALSE, ch |-> [c \in Channels |-> "skip"]]
Tele(m, g) == [present |-> TRUE, ch |-> [c \in Channels |-> IF c = "main" THEN m ELSE g]]
TeleParams == {NoTele, Tele("on", "skip"), Tele("skip", "on"), Tele("off", "off")}
AutoParams == {"absent", "true", "false"}

RECURSIVE ApplyFrom(_, _, _)
ApplyFrom(s, tp, i) ==
  IF i > Len(RelayOrder) THEN s
  ELSE LET c == RelayOrder[i]
       IN ApplyFrom(IF tp.ch[c] = "on" THEN relay_on(s, c)
                    ELSE IF tp.ch[c] = "off" THEN relay_off(s, c)
                    ELSE s, tp, i + 1)

\* if "auto" in data["params"]: updater.auto_update = ...
SetAuto(s, a) ==
  IF a = "absent" THEN s ELSE [s EXCEPT !.status.auto = (a = "true")]

\* if "telescope" in data["params"]: ...
ManualSet(s, tp) ==
  IF ~tp.present THEN [s |-> s, rsp |-> "done"]
  ELSE IF s.status.auto THEN [s |-> s, rsp |-> "autoerr"]
  ELSE [s |-> ApplyFrom(s, tp, 1),
        rsp |-> IF ApplyFrom(s, tp, 1).exc THEN "500" ELSE "done"]

\* ----------------------------------------------------------------- steps
\* log: the branch update_status logged; sun, fetched: what it read at the
\* gate and from the station; cyc, man: calls of on()/off() made by the cycle
\* and by the telescope params; ended: a cycle ran to its end in this step,
\* leaving the relays as in `end`; rsp, body: the answer of /api; mutated:
\* the answered request changed auto, a relay or self._time; exc: an
\* exception left update_status ("cycle") or the telescope loop ("manual").
NoOut == [log |-> "none", sun |-> "na", fetched |-> NoFetch, cyc |-> 0,
          man |-> 0, ended |-> FALSE, end |-> [c \in Channels |-> FALSE],
          rsp |-> "none", mutated |-> FALSE, exc |-> "none",
          body |-> [auto |-> FALSE, telescope |-> [c \in Channels |-> FALSE]]]

Changed(s0, s1) ==
  <<s0.status.auto, s0.relays, s0.time>> # <<s1.status.auto, s1.relays, s1.time>>

\* Task t is suspended inside update_status at `at`, the controller being s.
Suspend(t, tp, s, at, log, sun) ==
  /\ status' = s.status
  /\ relays' = s.relays
  /\ time' = s.time
  /\ pc' = [pc EXCEPT ![t] = at]
  /\ req' = IF t \in Handlers THEN [req EXCEPT ![t] = tp] ELSE req
  /\ dirty' = IF t \in Handlers
              THEN [dirty EXCEPT ![t] = @ \/ Changed(Ctl, s)] ELSE dirty
  /\ out' = [NoOut EXCEPT !.log = log, !.sun = sun]
  /\ UNCHANGED <<now, nadv, sleepLeft, sse, faulty>>

\* update_status has returned to task t with the controller s1: the request
\* handler goes on with the telescope params and answers, the driver sleeps.
\* If it has raised instead, aiohttp answers the request with 500, and in the
\* driver the exception leaves main() and asyncio.run: the process ends.
Return(t, tp, s1, log, sun, fetched) ==
  LET m == IF t \in Handlers /\ ~s1.exc
           THEN ManualSet([s1 EXCEPT !.writes = 0], tp)
           ELSE [s |-> [s1 EXCEPT !.writes = 0],
                 rsp |-> IF t \in Handlers THEN "500" ELSE "none"]
  IN /\ status' = m.s.status
     /\ relays' = m.s.relays
     /\ time' = m.s.time
     /\ pc' = IF t = Driver /\ s1.exc THEN [u \in Tasks |-> "exit"]
              ELSE [pc EXCEPT ![t] = IF t = Driver THEN "sleep" ELSE "idle"]
     /\ req' = IF t \in Handlers THEN [req EXCEPT ![t] = NoTele] ELSE req
     /\ dirty' = IF t \in Handlers THEN [dirty EXCEPT ![t] = FALSE] ELSE dirty
     /\ sleepLeft' = IF t = Driver THEN SLEEP ELSE sleepLeft
     /\ out' = [NoOut EXCEPT !.log = log, !.sun = sun, !.fetched = fetched,
                             !.cyc = s1.writes, !.man = m.s.writes,
                             !.ended = (log # "none" /\ ~s1.exc),
                             !.end = IF log # "none" /\ ~s1.exc
                                     THEN s1.relays ELSE NoOut.end,
                             !.rsp = m.rsp,
                             !.exc = IF s1.exc THEN "cycle"
                                     ELSE IF m.s.exc THEN "manual"
                                     ELSE "none",
                             !.mutated = IF t \in Handlers
                                         THEN dirty[t] \/ Changed(Ctl, m.s)
                                         ELSE FALSE]
     /\ UNCHANGED <<now, nadv, sse, faulty>>

\* update_status called by task t with the controller s.
Call(t, tp, s, sun) ==
  LET u == update_status(s, sun)
  IN IF u.at = "ret"
     THEN Return(t, tp, u.s, u.log, u.sun, NoFetch) /\ UNCHANGED <<locked, waiters>>
     ELSE /\ Suspend(t, tp, u.s, u.at, u.log, u.sun)
          /\ locked' = IF u.at = "fetch" THEN TRUE ELSE locked
          /\ waiters' = IF u.at = "lockwait" THEN Append(waiters, t) ELSE waiters

\* main(): while True: await updater.update_status(); await asyncio.sleep(180)
DriverTick(sun) ==
  /\ pc[Driver] = "sleep"
  /\ sleepLeft = 0
  /\ Call(Driver, NoTele, Ctl, sun)

\* /api with {"cmd": "set", "params": {"auto": a, "telescope": tp}}
ApiSet(h, a, tp, sun) ==
  /\ pc[h] = "idle"
  /\ a # "absent" \/ tp.present
  /\ IF a = "absent"
     THEN Return(h, tp, Ctl, "none", "na", NoFetch) /\ UNCHANGED <<locked, waiters>>
     ELSE Call(h, tp, SetAuto(Ctl, a), sun)

\* /api with {"cmd": "status"}
ApiStatus(h) ==
  /\ pc[h] = "idle"
  /\ out' = [NoOut EXCEPT !.rsp = "status", !.body = status]
  /\ UNCHANGED <<status, relays, time, now, nadv, locked, waiters, pc, req,
                 dirty, sleepLeft, sse, faulty>>

\* The query of a request to /api, as far as the validation looks at it:
\* json: the "json" parameter ("absent", "malformed", "ok"); cmd: data["cmd"]
\* ("absent", "set", "status", "other"); params: data["params"] ("absent",
\* "empty", "keys": only auto/telescope, "extra": another key as well);
\* auto: params["auto"] ("absent", "true", "false", "nonbool"); tele:
\* params["telescope"] ("absent", "ok", "unknown": a channel that is not a
\* relay, "nonbool": a channel value that is not a boolean).
Req(j, c, p, a, t) == [json |-> j, cmd |-> c, params |-> p, auto |-> a, tele |-> t]
Requests ==
  { Req("absent", "absent", "absent", "absent", "absent"),
    Req("malformed", "absent", "absent", "absent", "absent"),
    Req("ok", "absent", "absent", "absent", "absent"),
    Req("ok", "other", "keys", "true", "absent"),
    Req("ok", "set", "absent", "absent", "absent"),
    Req("ok", "set", "empty", "absent", "absent"),
    Req("ok", "set", "extra", "false", "ok"),
    Req("ok", "set", "keys", "nonbool", "absent"),
    Req("ok", "set", "keys", "true", "unknown"),
    Req("ok", "set", "keys", "false", "nonbool"),
    Req("ok", "status", "keys", "true", "absent"),
    Req("ok", "set", "keys", "true", "ok"),
    Req("ok", "set", "keys", "absent", "ok"),
    Req("ok", "status", "absent", "absent", "absent") }

\* The try block of the handler: no assertion fails, nothing raises.
Valid(q) ==
  /\ q.json = "ok"
  /\ q.cmd \in {"set", "status"}
  /\ q.cmd = "set" =>
       /\ q.params = "keys"
       /\ q.auto # "nonbool"
       /\ q.tele \notin {"unknown", "nonbool"}
  /\ q.cmd = "status" => q.params = "absent"

\* a handler that applies params["auto"] before it rejects the request
ApiBadAutoFirst(h, q) ==
  /\ pc[h] = "idle"
  /\ ~Valid(q)
  /\ status' = IF q.auto \in {"true", "false"}
               THEN [status EXCEPT !.auto = (q.auto = "true")] ELSE status
  /\ out' = [NoOut EXCEPT !.rsp = "400"]
  /\ UNCHANGED <<relays, time, now, nadv, locked, waiters, pc, req,
                 dirty, sleepLeft, sse, faulty>>

\* /api with a query that the validation rejects: HTTP 400.
ApiBad(h, q) ==
  /\ pc[h] = "idle"
  /\ ~Valid(q)
  /\ out' = [NoOut EXCEPT !.rsp = "400"]
  /\ UNCHANGED <<status, relays, time, now, nadv, locked, waiters, pc, req,
                 dirty, sleepLeft, sse, faulty>>

\* The lock is released and t is first in the queue: it takes the lock and
\* enters the locked body.
LockGranted(t, sun) ==
  /\ pc[t] = "lockwait"
  /\ ~locked
  /\ waiters # <<>>
  /\ Head(waiters) = t
  /\ waiters' = Tail(waiters)
  /\ LET g == Gate(Ctl, sun)
         tp == IF t \in Handlers THEN req[t] ELSE NoTele
     IN IF g.at = "ret"
        THEN Return(t, tp, g.s, g.log, g.sun, NoFetch) /\ locked' = FALSE
        ELSE Suspend(t, tp, g.s, g.at, g.log, g.sun) /\ locked' = TRUE

\* a cycle that keeps the lock when its fetch has failed
FetchDoneKeepsLock(t, r) ==
  /\ pc[t] = "fetch"
  /\ locked' = (r \in {Failure("neterror"), Failure("malformed")})
  /\ UNCHANGED waiters
  /\ LET d == Decide(Ctl, r)
         tp == IF t \in Handlers THEN req[t] ELSE NoTele
     IN Return(t, tp, d.s, d.log, "down", r)

\* The fetch of task t ends with r: decision, actuation, release of the lock.
FetchDone(t, r) ==
  /\ pc[t] = "fetch"
  /\ locked' = FALSE
  /\ UNCHANGED waiters
  /\ LET d == Decide(Ctl, r)
         tp == IF t \in Handlers THEN req[t] ELSE NoTele
     IN Return(t, tp, d.s, d.log, "down", r)

\* Time passes.  The fetch is bounded by ClientTimeout(total=5), shorter
\* than every step of the clock, so no fetch is in flight across a step.
Advance(d) ==
  /\ nadv < MaxAdvances
  /\ \A t \in Tasks : pc[t] # "fetch"
  /\ nadv' = nadv + 1
  /\ now' = now + d
  /\ sleepLeft' = IF sleepLeft > d THEN sleepLeft - d ELSE 0
  /\ out' = NoOut
  /\ UNCHANGED <<status, relays, time, locked, waiters, pc, req, dirty, sse, faulty>>

\* /status-sse, line 237: the status differs from last_status; the payload
\* is serialised and the coroutine is suspended in resp.send.
SseCheck ==
  /\ sending = <<>>
  /\ last_status # <<status>>
  /\ sending' = <<status>>
  /\ out' = NoOut
  /\ UNCHANGED <<status, relays, time, now, nadv, locked, waiters, pc, req,
                 dirty, sleepLeft, last_status, pushed, faulty>>

\* /status-sse, lines 238-240: resp.send returns, the observer has the
\* payload; last_status = deepcopy(updater.status) copies the status of now.
SseSendDone ==
  /\ sending # <<>>
  /\ pushed' = sending
  /\ last_status' = <<status>>
  /\ sending' = <<>>
  /\ out' = NoOut
  /\ UNCHANGED <<status, relays, time, now, nadv, locked, waiters, pc, req,
                 dirty, sleepLeft, faulty>>

\* asyncio.sleep(180) of the driver returns; the value of the clock is not
\* followed here.
SleepEnds ==
  /\ pc[Driver] = "sleep"
  /\ sleepLeft > 0
  /\ sleepLeft' = 0
  /\ out' = NoOut
  /\ UNCHANGED <<status, relays, time, now, nadv, locked, waiters, pc, req,
                 dirty, sse, faulty>>

\* The hardware of the channels in f stops responding, or responds again.
FaultSets == {{}, {"main"}, {"guide"}}
HwFault(f) ==
  /\ f # faulty
  /\ faulty' = f
  /\ out' = NoOut
  /\ UNCHANGED <<status, relays, time, now, nadv, locked, waiters, pc, req,
                 dirty, sleepLeft, sse>>

\* SIGINT: asyncio.run cancels the tasks. CancelledError is raised at
\* the await where each task is suspended; it is no Exception, so line 146
\* does not catch it: the lock is released by `async with` and the process
\* ends at lines 276-277. Nothing is written to a relay.
Interrupt ==
  /\ \E t \in Tasks : pc[t] # "exit"
  /\ pc' = [t \in Tasks |-> "exit"]
  /\ locked' = FALSE
  /\ waiters' = <<>>
  /\ req' = [h \in Handlers |-> NoTele]
  /\ dirty' = [h \in Handlers |-> FALSE]
  /\ sleepLeft' = 0
  /\ out' = [NoOut EXCEPT !.log = "interrupt"]
  /\ UNCHANGED <<status, relays, time, now, nadv, sse, faulty>>

Init ==
  /\ relays = [c \in Channels |-> FALSE]
  /\ status = [auto |-> TRUE, telescope |-> [c \in Channels |-> FALSE]]
  /\ now = 0
  /\ time = 0 - (time_threshold + 1)
  /\ nadv = 0
  /\ locked = FALSE
  /\ waiters = <<>>
  /\ pc = [t \in Tasks |-> IF t = Driver THEN "sleep" ELSE "idle"]
  /\ req = [h \in Handlers |-> NoTele]
  /\ dirty = [h \in Handlers |-> FALSE]
  /\ sleepLeft = 0
  /\ out = NoOut
  /\ last_status = <<>>
  /\ sending = <<>>
  /\ pushed = <<>>
  /\ faulty = {}

\* One /api request in flight at a time, the driver, and the clock.
Next ==
  \/ \E sun \in BOOLEAN : DriverTick(sun)
  \/ \E a \in AutoParams, tp \in TeleParams, sun \in BOOLEAN :
        ApiSet("h1", a, tp, sun)
  \/ ApiStatus("h1")
  \/ \E q \in Requests : ApiBad("h1", q)
  \/ \E t \in Tasks, sun \in BOOLEAN : LockGranted(t, sun)
  \/ \E t \in Tasks, r \in FetchResults : FetchDone(t, r)
  \/ \E d \in TimeSteps : Advance(d)
  \/ Interrupt

Spec == Init /\ [][Next]_vars

\* One observer of /status-sse and one /api request at a time, at one
\* instant of a night: the requests set auto and switch the main channel On,
\* the fetch fails or reads 10.0 degC, 90 %. The sleep of 0.1 s ends and a
\* send to a connected observer completes.
NextSSE ==
  \/ SseCheck
  \/ SseSendDone
  \/ \E a \in AutoParams, tp \in {NoTele, Tele("on", "skip")} :
        ApiSet("h1", a, tp, FALSE)
  \/ \E r \in {Failure("neterror"), Reading(10 * Scale, 900)} :
        FetchDone("h1", r)

SpecSSE ==
  Init /\ [][NextSSE]_vars /\ WF_vars(SseCheck) /\ WF_vars(SseSendDone)

\* The driver and one /api request at a time with relays that can fail, at
\* one instant of the clock.
NextFault ==
  \/ \E sun \in BOOLEAN : DriverTick(sun)
  \/ \E a \in AutoParams, tp \in TeleParams, sun \in BOOLEAN :
        ApiSet("h1", a, tp, sun)
  \/ \E t \in Tasks, sun \in BOOLEAN : LockGranted(t, sun)
  \/ \E t \in Tasks, r \in FetchResults : FetchDone(t, r)
  \/ \E f \in FaultSets : HwFault(f)

SpecFault == Init /\ [][NextFault]_vars

\* The driver with its sleep and one /api request at a time. The fetch
\* ends (ClientTimeout(total=5)), the event loop runs the first waiter of a
\* free lock, the sleep of the driver ends and the driver then runs; requests
\* arrive or not.
NextLive ==
  \/ \E sun \in BOOLEAN : DriverTick(sun)
  \/ \E a \in AutoParams, tp \in TeleParams, sun \in BOOLEAN :
        ApiSet("h1", a, tp, sun)
  \/ \E t \in Tasks, sun \in BOOLEAN : LockGranted(t, sun)
  \/ \E t \in Tasks, r \in FetchResults : FetchDone(t, r)
  \/ SleepEnds

SpecLive ==
  /\ Init /\ [][NextLive]_vars
  /\ WF_vars(\E t \in Tasks, r \in FetchResults : FetchDone(t, r))
  /\ WF_vars(\E t \in Tasks, sun \in BOOLEAN : LockGranted(t, sun))
  /\ WF_vars(\E sun \in BOOLEAN : DriverTick(sun))
  /\ WF_vars(SleepEnds)

\* Concurrent /api requests and the driver, at one instant of the clock.
NextConc ==
  \/ \E sun \in BOOLEAN : DriverTick(sun)
  \/ \E h \in Handlers, a \in AutoParams, tp \in TeleParams, sun \in BOOLEAN :
        ApiSet(h, a, tp, sun)
  \/ \E h \in Handlers : ApiStatus(h)
  \/ \E t \in Tasks, sun \in BOOLEAN : LockGranted(t, sun)
  \/ \E t \in Tasks, r \in FetchResults : FetchDone(t, r)

SpecConc == Init /\ [][NextConc]_vars

\* ================================================================= claims
AllOn == \A c \in Channels : relays[c]
AllOff == \A c \in Channels : ~relays[c]
Fetching == {t \in Tasks : pc[t] = "fetch"}
FetchFails(r) == r \in {Failure("neterror"), Failure("malformed")}
ComputeRaises(r) ==
  r \in Samples /\ dew_point(r.temperature, r.humidity).k = "raise"
DeltaAbove(r) ==
  /\ r \in Samples
  /\ dew_point(r.temperature, r.humidity).k = "num"
  /\ r.temperature - dew_point(r.temperature, r.humidity).v > temp_threshold
\* An enable cycle has set self._time and its hold window is still open.
InHold == time >= 0 /\ now - time <= time_threshold

\* C1: at most one invocation of update_status is inside the locked cycle
\* body at any time, and the lock is held exactly while one is.
C1_OneCycleAtATime ==
  /\ Cardinality(Fetching) <= 1
  /\ locked <=> Fetching # {}
  /\ \A t \in Tasks : pc[t] = "lockwait" <=> \E i \in 1..Len(waiters) : waiters[i] = t
\* A cycle awaits the fetch while two more invocations queue for the lock.
C1_Witness == Cardinality(Fetching) = 1 /\ Len(waiters) = 2

\* C2: a control cycle never switches a relay while status["auto"] is false.
C2_NoCycleActuationInManual == out.cyc > 0 => status.auto

\* C3: a "set" request answered with the automatic-mode error has changed
\* neither auto nor a relay nor self._time, and the telescope params switch
\* no relay while auto is true.
C3_RejectionLeavesState ==
  /\ out.rsp = "autoerr" => ~out.mutated
  /\ out.man > 0 => ~status.auto

\* C4: a cycle that finds the sun up at its gate ends in the same step with
\* every channel Off, starts no fetch and leaves self._time unchanged.
C4_Daytime ==
  [][out'.sun = "up" =>
       /\ out'.ended
       /\ \A c \in Channels : ~out'.end[c]
       /\ out'.fetched = NoFetch
       /\ \A t \in Tasks : pc'[t] = "fetch" => pc[t] = "fetch"
       /\ time' = time]_vars
\* A daytime cycle has switched off channels that were On inside the hold
\* window.
C4_Witness == out.sun = "up" /\ out.cyc = 2 /\ InHold

\* C5: a night cycle whose fetch or dew-point computation raises ends with
\* every channel Off.
C5_FailSafe ==
  (out.ended /\ (FetchFails(out.fetched) \/ ComputeRaises(out.fetched)))
    => \A c \in Channels : ~out.end[c]
\* The fail-safe branch has switched off both channels inside the hold window.
C5_Witness ==
  /\ FetchFails(out.fetched) \/ ComputeRaises(out.fetched)
  /\ out.cyc = 2
  /\ InHold

\* C6: a night cycle that fetched a humidity <= 0 takes the fail-safe
\* branch and ends with every channel Off.
C6_HumidityNotPositiveFails ==
  (out.fetched \in Samples /\ out.fetched.humidity <= 0)
    => (out.log = "error" /\ \A c \in Channels : ~out.end[c])

\* C7 as stated: inside the hold window of an enable cycle, every channel
\* that is On stays On across every step taken in auto mode whose cycle, if
\* it reads a delta, reads one above the threshold.
C7_HoldAnyCycle ==
  [][(status'.auto /\ InHold /\ AllOn
        /\ (out'.fetched \in Samples => DeltaAbove(out'.fetched)))
       => AllOn']_vars
\* C7 amended: the same, for the steps whose cycle runs at night and whose
\* fetch and computation succeed.
C7_HoldNightCycles ==
  [][(status'.auto /\ InHold /\ AllOn
        /\ out'.sun # "up"
        /\ ~FetchFails(out'.fetched) /\ ~ComputeRaises(out'.fetched))
       => AllOn']_vars
\* A cycle read a delta above the threshold later in the window of an enable
\* cycle and left both channels On.
C7_Witness ==
  /\ out.log = "waiting" /\ DeltaAbove(out.fetched)
  /\ AllOn /\ status.auto
  /\ InHold /\ now > time

\* C8: relay_on on a channel that is On, and relay_off on one that is Off,
\* write nothing to the hardware and leave relays and status as they are;
\* a second relay_on (relay_off) adds nothing to the first.
C8_RelayIdempotent ==
  \A c \in Channels :
    /\ relays[c] => relay_on(Ctl, c) = Ctl
    /\ ~relays[c] => relay_off(Ctl, c) = Ctl
    /\ relay_on(relay_on(Ctl, c), c) = relay_on(Ctl, c)
    /\ relay_off(relay_off(Ctl, c), c) = relay_off(Ctl, c)
\* An enable cycle found both channels On and wrote to neither.
C8_Witness == out.log = "enabled" /\ out.cyc = 0 /\ AllOn

\* C9: a status query is never answered while a request that has already
\* changed the controller is still suspended in its cycle.
C9_SnapshotAtomic ==
  out.rsp = "status" => \A h \in Handlers : ~dirty[h]

\* C10: the telescope params switch no relay while a cycle holds the lock.
C10_ManualSerialized == out.man > 0 => ~locked

\* C11: a request answered with HTTP 400 changes neither auto nor a relay
\* nor self._time, and neither starts nor queues a cycle.
C11_RejectedUnchanged ==
  [][out'.rsp = "400" =>
       /\ status' = status /\ relays' = relays /\ time' = time
       /\ pc' = pc /\ locked' = locked /\ waiters' = waiters
       /\ out'.log = "none" /\ ~out'.ended]_vars
\* A request was rejected in manual mode with the main channel On.
C11_Witness == out.rsp = "400" /\ ~status.auto /\ relays["main"]

DeltaBelow(r) ==
  /\ r \in Samples
  /\ dew_point(r.temperature, r.humidity).k = "num"
  /\ r.temperature - dew_point(r.temperature, r.humidity).v < temp_threshold
DeltaEqual(r) ==
  /\ r \in Samples
  /\ dew_point(r.temperature, r.humidity).k = "num"
  /\ r.temperature - dew_point(r.temperature, r.humidity).v = temp_threshold

\* C14: a cycle that reads delta > temp_threshold more than time_threshold
\* seconds after the last enable cycle ends with every channel Off, however
\* long ago that enable was.
C14_DisableRule ==
  (out.ended /\ DeltaAbove(out.fetched)
     /\ time >= 0 /\ now - time > time_threshold)
    => \A c \in Channels : ~out.end[c]

\* C15: a cycle that reads delta < temp_threshold ends with every channel On
\* and self._time equal to the time of the cycle, and no other step changes
\* self._time.
C15_EnableRule ==
  [][/\ (out'.ended /\ DeltaBelow(out'.fetched))
          => ((\A c \in Channels : out'.end[c]) /\ time' = now')
     /\ time' # time
          => (out'.ended /\ DeltaBelow(out'.fetched) /\ time' = now')]_vars
\* A later enable cycle found a channel Off and an older self._time.
C15_Witness ==
  out.log = "enabled" /\ out.cyc > 0 /\ time = now /\ now > 0

\* C16: a cycle that reads delta > temp_threshold inside the hold window, or
\* delta = temp_threshold at any time, switches no relay and leaves the
\* status and self._time as they were.
C16_HoldBandNoOp ==
  [][(out'.ended
       /\ \/ DeltaAbove(out'.fetched) /\ now - time <= time_threshold
          \/ DeltaEqual(out'.fetched))
     => /\ out'.cyc = 0 /\ out'.end = relays /\ time' = time
        /\ out'.man = 0 => (status' = status /\ relays' = relays)]_vars
\* delta equal to the threshold long after the last enable: channels stay On.
C16_Witness ==
  /\ out.log = "waiting" /\ DeltaEqual(out.fetched)
  /\ now - time > time_threshold /\ time >= 0 /\ AllOn

\* C20: status["telescope"] names exactly the configured channels and gives
\* for each the active state of its relay.
C20_StatusMirrorsRelays ==
  /\ DOMAIN status.telescope = Channels
  /\ \A c \in Channels : status.telescope[c] = relays[c]
\* A manual command has left the guide channel On and the main channel Off.
C20_Witness ==
  /\ out.man > 0 /\ ~relays["main"] /\ relays["guide"]
  /\ status.telescope = relays

\* C19: as long as no cycle has enabled the channels since the start, a
\* cycle that reads delta > temp_threshold ends with every channel Off,
\* whatever the time since the start.
C19_ColdStartDisables ==
  (out.ended /\ DeltaAbove(out.fetched) /\ time = 0 - (time_threshold + 1))
    => \A c \in Channels : ~out.end[c]

\* C13: when the process is interrupted while a cycle is awaiting the
\* meteo fetch, the step that ends the process also ends that cycle with a
\* decision.
C13_InFlightCycleCompletes ==
  [][(Fetching # {} /\ \A t \in Tasks : pc'[t] = "exit") => out'.ended]_vars

StatusValues == [auto : BOOLEAN, telescope : [Channels -> BOOLEAN]]

\* C12: whenever the status settles on a value, the observer of /status-sse
\* is eventually sent that value, and it stays the last payload sent.
C12_PushOnChange ==
  \A S \in StatusValues : <>[](status = S) => <>[](pushed = <<S>>)

\* C18: a cycle that has to switch a channel whose relay raises ends with
\* that exception: update_status does not return normally as it does after a
\* fail-safe, the lock is free, and the caller has the error (the request
\* is answered 500, the driver's exception ends the process).
C18_ActuationFailurePropagates ==
  [][/\ ( /\ \/ out'.log = "daily"
              \/ FetchFails(out'.fetched) \/ ComputeRaises(out'.fetched)
              \/ out'.log = "disabled"
           /\ \E c \in faulty : relays[c] )
          => out'.exc = "cycle"
     /\ (DeltaBelow(out'.fetched) /\ \E c \in faulty : ~relays[c])
          => out'.exc = "cycle"
     /\ out'.exc = "cycle"
          => /\ ~locked' /\ ~out'.ended
             /\ out'.rsp = "500" \/ \A t \in Tasks : pc'[t] = "exit"
     /\ (out'.ended /\ out'.log = "error") => out'.exc = "none"]_vars
\* A request-triggered cycle decided to enable and a relay raised.
C18_Witness ==
  out.exc = "cycle" /\ DeltaBelow(out.fetched) /\ out.rsp = "500" /\ ~locked

\* C17: a cycle awaiting the fetch ends and the lock is released, whatever
\* the fetch delivers; a task queued on the lock gets it; the driver starts
\* cycles again and again, also after a cycle that failed.
C17_CyclesNeverBlock ==
  /\ \A t \in Tasks : (pc[t] = "fetch") ~> (pc[t] # "fetch")
  /\ locked ~> ~locked
  /\ \A t \in Tasks : (pc[t] = "lockwait") ~> (pc[t] \notin {"lockwait", "fetch"})
  /\ (out.ended /\ out.log = "error")
       ~> (pc[Driver] = "sleep" /\ sleepLeft = 0)
  /\ (pc[Driver] = "sleep" /\ sleepLeft = 0)
       ~> ~(pc[Driver] = "sleep" /\ sleepLeft = 0)
\* A cycle whose fetch failed has ended fail-safe with a request queued on
\* the lock, which is free again.
C17_Witness ==
  /\ out.ended /\ out.log = "error" /\ FetchFails(out.fetched)
  /\ waiters # <<>> /\ ~locked /\ pc[Driver] = "sleep"
====
